---------------------------- MODULE Spec2Model ----------------------------
(***************************************************************************)
(* Model of the K-dexter MCP gateway: policy (canAccess / matches), the    *)
(* call log, the registry reads and GatewayService.callTool with its       *)
(* downstream-connection cache, retry loop and per-attempt timeout race.   *)
(*                                                                         *)
(* Strings that the code formats and parses (server names, tool names,     *)
(* policy resource patterns) are sequences of one-character strings, so    *)
(* that `${serverName}:${toolName}` and String.split(':') are modelled by  *)
(* what they do.  Strings that are only compared (roles, statuses) are     *)
(* TLA+ strings.                                                           *)
(*                                                                         *)
(* An action is one run-to-completion step of the single-threaded event    *)
(* loop: the code between two awaits.                                      *)
(*                                                                         *)
(* Specifications: Spec (callTool invocations), SpecPolicy (canAccess),    *)
(* SpecSession (GET /sse, POST /messages, stream abort), SpecRegistry      *)
(* (registerServer, updateTools), SpecList (listTools) and SpecBoot        *)
(* (initializePolicySchema, key creation and deactivation, added rules).   *)
(***************************************************************************)
EXTENDS Integers, Sequences, FiniteSets, TLC

VARIABLES
    policies,           \* policies table: set of [role, resource, action]
    mcp_servers,        \* mcp_servers table: seq of rows (rowid order)
    mcp_tools,          \* mcp_tools table: seq of rows (rowid order)
    downstreamClients,  \* gateway.ts:16 Map<server_name, Client>
    liveClients,        \* every Client whose connect() resolved (none is ever closed);
                        \* a Client is identified by the invocation that created it
    call_logs,          \* call_logs table: set of rows
    calls,              \* one record per callTool invocation (its locals and position)
    timers,             \* armed setTimeout timers whose firing can still change a call
                        \* (the timer of a settled race fires into a settled promise)
    inflight,           \* client.request calls sent and not yet answered
    polQuery,           \* last canAccess query and its result (policy specification)
    api_keys,           \* api_keys table: set of rows
    activeSessions,     \* part_007:11 Map<sessionId, { transport, role }>
    sess,               \* per session id: position of its stream callback and its transport
    httpResp,           \* the last GET /sse request and its response
    posts,              \* one record per POST /messages request (its locals and position)
    regResult,          \* the last RegistryService write and its outcome
    listed,             \* the last listTools call and what it returned
    boot                \* initializePolicySchema: whether it ran and what the last run did

sessionVars == <<api_keys, activeSessions, sess, httpResp, posts>>
adminVars == <<regResult, listed, boot>>

vars == <<policies, mcp_servers, mcp_tools, downstreamClients, liveClients, call_logs, calls, timers, inflight, polQuery, sessionVars, adminVars>>

(***************************************************************************)
(* Bounds                                                                  *)
(***************************************************************************)
MaxCalls == 2
MaxNameLen == 2
MaxPatternLen == 3
MaxSessions == 2
MaxPosts == 2
MaxTools == 2
MaxKeys == 2

Calls == 1..MaxCalls

(***************************************************************************)
(* Program constants                                                       *)
(***************************************************************************)
MAX_RETRIES == 2
TIMEOUT_MS == 30000
BACKOFF_UNIT_MS == 1000

unknown == <<"u","n","k","n","o","w","n">>
k_dexter_native == <<"k","-","d","e","x","t","e","r","-","n","a","t","i","v","e">>
undefined == <<"undefined">>

\* names used by the gateway specification
research == <<"r","s">>
payment == <<"p","m">>
get_price == <<"g","p">>
charge == <<"c","h">>
native_tool == <<"n","t">>
no_such_tool == <<"z","z">>

(***************************************************************************)
(* PolicyService                                                           *)
(***************************************************************************)
RECURSIVE SplitAcc(_, _, _)
SplitAcc(s, i, cur) ==
    IF i > Len(s) THEN <<cur>>
    ELSE IF s[i] = ":" THEN <<cur>> \o SplitAcc(s, i + 1, <<>>)
    ELSE SplitAcc(s, i + 1, Append(cur, s[i]))

\* String.prototype.split(':')
split(s) == SplitAcc(s, 1, <<>>)

\* array destructuring: a missing element is undefined
Field(parts, i) == IF i <= Len(parts) THEN parts[i] ELSE undefined

\* !x for a string or undefined
Falsy(x) == x = <<>> \/ x = undefined

matches(pattern, target) ==
    IF pattern = <<"*">> THEN TRUE
    ELSE LET pServer == Field(split(pattern), 1)
             pTool == Field(split(pattern), 2)
             tServer == Field(split(target), 1)
             tTool == Field(split(target), 2)
         IN  IF Falsy(pServer) \/ Falsy(tServer) THEN FALSE
             ELSE /\ (pServer = <<"*">> \/ pServer = tServer)
                  /\ (pTool = <<"*">> \/ pTool = tTool)

\* `${serverName}:${toolName}`
Resource(serverName, toolName) == serverName \o <<":">> \o toolName

canAccess(role, serverName, toolName) ==
    \E policy \in policies :
        /\ policy.role = role
        /\ policy.action = "allow"
        /\ matches(policy.resource, Resource(serverName, toolName))

\* a seed rule that spells the wildcard per side
SeedPoliciesPerSide == {[role |-> "admin", resource |-> <<"*", ":", "*">>, action |-> "allow"]}

\* initializePolicySchema: INSERT OR IGNORE ('admin', '*', 'allow')
SeedPolicies == {[role |-> "admin", resource |-> <<"*">>, action |-> "allow"]}

(***************************************************************************)
(* RegistryService reads and the native tool catalog                       *)
(***************************************************************************)
ServerById(id) == CHOOSE s \in {mcp_servers[i] : i \in DOMAIN mcp_servers} : s.id = id

\* the join without the status condition
RECURSIVE JoinAll(_, _)
JoinAll(tools, i) ==
    IF i > Len(tools) THEN <<>>
    ELSE LET t == tools[i]
             owners == {k \in DOMAIN mcp_servers : mcp_servers[k].id = t.server_id}
         IN  IF owners # {}
             THEN <<[tool_name |-> t.name,
                     server_name |-> ServerById(t.server_id).name,
                     transport_type |-> ServerById(t.server_id).transport_type]>>
                  \o JoinAll(tools, i + 1)
             ELSE JoinAll(tools, i + 1)

\* SELECT ... FROM mcp_tools t JOIN mcp_servers s ... WHERE s.status = 'active'
RECURSIVE JoinActive(_, _)
JoinActive(tools, i) ==
    IF i > Len(tools) THEN <<>>
    ELSE LET t == tools[i]
             owners == {k \in DOMAIN mcp_servers : mcp_servers[k].id = t.server_id}
         IN  IF owners # {} /\ ServerById(t.server_id).status = "active"
             THEN <<[tool_name |-> t.name,
                     server_name |-> ServerById(t.server_id).name,
                     transport_type |-> ServerById(t.server_id).transport_type]>>
                  \o JoinActive(tools, i + 1)
             ELSE JoinActive(tools, i + 1)

getAllTools == JoinActive(mcp_tools, 1)

\* SELECT * FROM mcp_servers WHERE name = ?  (the set of matching rows: empty or one)
getServer(name) == {mcp_servers[i] : i \in {k \in DOMAIN mcp_servers : mcp_servers[k].name = name}}

\* getToolRegistry('native'): the static in-process catalog
getToolRegistry == <<native_tool>>

\* catalog tools formatted with a downstream transport kind
RECURSIVE FormatNativeAsStdio(_, _)
FormatNativeAsStdio(names, i) ==
    IF i > Len(names) THEN <<>>
    ELSE <<[tool_name |-> names[i], server_name |-> k_dexter_native,
            transport_type |-> "stdio"]>> \o FormatNativeAsStdio(names, i + 1)

RECURSIVE FormatNative(_, _)
FormatNative(names, i) ==
    IF i > Len(names) THEN <<>>
    ELSE <<[tool_name |-> names[i], server_name |-> k_dexter_native,
            transport_type |-> "native"]>> \o FormatNative(names, i + 1)

nativeToolsFormatted == FormatNative(getToolRegistry, 1)

\* [...dbTools, ...nativeToolsFormatted]
allTools == getAllTools \o nativeToolsFormatted

\* a lookup that falls back to the first tool when no name matches
FindToolOrFirst(tools, toolName) ==
    LET hits == {i \in DOMAIN tools : tools[i].tool_name = toolName}
    IN  IF tools = <<>> THEN {}
        ELSE IF hits = {} THEN {tools[1]}
        ELSE {tools[CHOOSE i \in hits : \A j \in hits : i <= j]}

\* Array.prototype.find(t => t.tool_name === toolName): the set holding the first
\* match, or the empty set
FindTool(tools, toolName) ==
    LET hits == {i \in DOMAIN tools : tools[i].tool_name = toolName}
    IN  IF hits = {} THEN {}
        ELSE {tools[CHOOSE i \in hits : \A j \in hits : i <= j]}


(***************************************************************************)
(* LoggingService                                                          *)
(***************************************************************************)
NoError == [kind |-> "none", role |-> "-", tool |-> <<>>, server |-> <<>>, attempt |-> 0]

\* an Error object: what its message says
Err(kind, role, tool, server, attempt) ==
    [kind |-> kind, role |-> role, tool |-> tool, server |-> server, attempt |-> attempt]

\* error_message column: the literal prefix and the message of the error it quotes
Msg(prefix, cause) == [prefix |-> prefix, cause |-> cause]
NoMsg == Msg("null", NoError)

\* a call_logs row.  The autoincrement id is abstracted to (inv, nth): the invocation
\* that wrote the row and how many rows it had written before; nth is filled in by
\* logCall
Row(inv, sessionId, role, serverName, toolName, status, msg) ==
    [inv |-> inv, nth |-> 0, session_id |-> sessionId, role |-> role, server_name |-> serverName,
     tool_name |-> toolName, status |-> status, error_message |-> msg]

\* INSERT INTO call_logs
logCall(logs, row) ==
    logs \cup {[row EXCEPT !.nth = Cardinality({r \in logs : r.inv = row.inv})]}

\* getStats().total_calls: SELECT COUNT(*) FROM call_logs
total_calls == Cardinality(call_logs)

(***************************************************************************)
(* GatewayService.callTool                                                 *)
(***************************************************************************)
NoResult == [from |-> "none", attempt |-> 0]

IdleCall ==
    [pc |-> "idle", toolName |-> <<>>, role |-> "-", sessionId |-> "-",
     serverName |-> unknown, resolved |-> FALSE, client |-> 0, attempt |-> 0,
     history |-> <<>>, delays |-> <<>>, lastError |-> NoError,
     status |-> "none", error |-> NoError, result |-> NoResult,
     nativeInvokes |-> 0, connects |-> 0, requests |-> 0]

\* a failure that is swallowed: the promise resolves with no result
FailSwallowed(call, err) == [call EXCEPT !.pc = "done", !.status = "success"]

\* the promise returned by callTool rejects with err
Fail(call, err) == [call EXCEPT !.pc = "done", !.status = "error", !.error = err]

\* the promise returned by callTool resolves with result
Succeed(call, result) == [call EXCEPT !.pc = "done", !.status = "success", !.result = result]

\* effects of a step on the state it may touch
Effects(call, logs, tm, fl) == [call |-> call, logs |-> logs, timers |-> tm, inflight |-> fl]

\* gateway.ts:221-226, the catch around the whole body
OuterCatch(c, call, logs, err, tm, fl) ==
    Effects(Fail(call, err),
            logCall(logs, Row(c, call.sessionId, call.role, call.serverName,
                              call.toolName, "error", Msg("Execution failed", err))),
            tm, fl)

\* the permission check left out
PermissionCheckSkipped(role, serverName, toolName) == FALSE

\* gateway.ts:129, the permission check
PermissionDenied(role, serverName, toolName) == ~canAccess(role, serverName, toolName)

\* one timer for the whole call, armed by the first attempt
ArmTimeoutOnce(tm, c, attempt) ==
    IF attempt = 1
    THEN tm \cup {[inv |-> c, attempt |-> attempt, kind |-> "timeout", delay |-> TIMEOUT_MS]}
    ELSE tm

\* gateway.ts:183-185, setTimeout(reject, TIMEOUT_MS) of one attempt
ArmTimeout(tm, c, attempt) ==
    tm \cup {[inv |-> c, attempt |-> attempt, kind |-> "timeout", delay |-> TIMEOUT_MS]}

\* the backoff computed from a zero-based attempt number
BackoffFromZero(attempt) == BACKOFF_UNIT_MS * (attempt - 1)

\* gateway.ts:214, the backoff delay after failed attempt
BackoffDelay(attempt) == BACKOFF_UNIT_MS * attempt

ArmBackoff(tm, c, attempt) ==
    tm \cup {[inv |-> c, attempt |-> attempt, kind |-> "backoff", delay |-> BackoffDelay(attempt)]}

\* lastError assigned only while it is unset
KeepFirstError(prev, error) == IF prev.kind = "none" THEN error ELSE prev

\* gateway.ts:210, lastError = error
RecordLastError(prev, error) == error

\* gateway.ts:181-203, one loop iteration up to the await of Promise.race
BeginAttempt(c, call, logs, tm, fl, attempt) ==
    Effects([call EXCEPT !.pc = "executing", !.attempt = attempt, !.requests = @ + 1],
            logs,
            ArmTimeout(tm, c, attempt),
            fl \cup {[client |-> call.client, inv |-> c, attempt |-> attempt]})

\* a catch that waits the backoff after every failed attempt, the last included
AttemptFailedAlwaysBackoff(c, call, logs, tm, fl, error) ==
    Effects([call EXCEPT !.lastError = RecordLastError(call.lastError, error),
                         !.pc = "backoff"],
            logs, ArmBackoff(tm, c, call.attempt), fl)

\* gateway.ts:209-219, the catch of one attempt and what follows it
AttemptFailed(c, call, logs, tm, fl, error) ==
    LET last == RecordLastError(call.lastError, error)
        failed == [call EXCEPT !.lastError = last]
    IN  IF call.attempt <= MAX_RETRIES
        THEN Effects([failed EXCEPT !.pc = "backoff"], logs,
                     ArmBackoff(tm, c, call.attempt), fl)
        ELSE OuterCatch(c, failed, logs, last, tm, fl)

\* gateway.ts:205-207
AttemptSucceeded(c, call, logs, tm, fl) ==
    Effects(Succeed(call, [from |-> "downstream", attempt |-> call.attempt]),
            logCall(logs, Row(c, call.sessionId, call.role, call.serverName,
                              call.toolName, "success", NoMsg)),
            tm, fl)

\* gateway.ts:168-173, the catch around getServer / connectToDownstream
ConnectCatch(c, call, logs, tm, fl, error) ==
    OuterCatch(c, call,
               logCall(logs, Row(c, call.sessionId, call.role, call.serverName,
                                 call.toolName, "error", Msg("Connection failed", error))),
               Err("FailedToConnect", "-", <<>>, call.serverName, 0), tm, fl)

Range(seq) == {seq[i] : i \in DOMAIN seq}

\* gateway.ts:102-174, callTool from its entry to its first await
StartEffects(c, toolName, role, sessionId) ==
    LET base == [calls[c] EXCEPT !.toolName = toolName, !.role = role,
                                 !.sessionId = sessionId]
        found == FindTool(allTools, toolName)
    IN  IF found = {}
        THEN LET e == Err("ToolNotFound", "-", toolName, <<>>, 0)
             IN  OuterCatch(c, base,
                     logCall(call_logs, Row(c, sessionId, role, unknown, toolName,
                                            "error", Msg("Tool not found", NoError))),
                     e, timers, inflight)
        ELSE
        LET toolRecord == CHOOSE t \in found : TRUE
            serverName == toolRecord.server_name
            call == [base EXCEPT !.serverName = serverName, !.resolved = TRUE]
        IN  IF PermissionDenied(role, serverName, toolName)
            THEN OuterCatch(c, call,
                     logCall(call_logs, Row(c, sessionId, role, serverName, toolName,
                                            "error", Msg("Access Denied", NoError))),
                     Err("AccessDenied", role, toolName, <<>>, 0), timers, inflight)
            ELSE IF toolRecord.transport_type = "native"
            THEN IF toolName \notin Range(getToolRegistry)
                 THEN OuterCatch(c, call, call_logs,
                          Err("NativeLogicNotFound", "-", toolName, <<>>, 0),
                          timers, inflight)
                 ELSE Effects([call EXCEPT !.pc = "native", !.nativeInvokes = @ + 1],
                              call_logs, timers, inflight)
            ELSE IF serverName \in DOMAIN downstreamClients
            THEN BeginAttempt(c, [call EXCEPT !.client = downstreamClients[serverName]],
                              call_logs, timers, inflight, 1)
            ELSE IF getServer(serverName) = {}
            THEN ConnectCatch(c, call, call_logs, timers, inflight,
                              Err("ServerConfigNotFound", "-", <<>>, serverName, 0))
            ELSE Effects([call EXCEPT !.pc = "connecting", !.client = c,
                                      !.connects = @ + 1],
                         call_logs, timers, inflight)

Apply(c, eff) ==
    /\ calls' = [calls EXCEPT ![c] = eff.call]
    /\ call_logs' = eff.logs
    /\ timers' = eff.timers
    /\ inflight' = eff.inflight

\* the sessions that issue calls: each passes the role resolved when it was opened
\* (mcpRoutes.get('/sse'): callTool(name, arguments, user.role, sessionId))
SessionRole == [s1 |-> "admin", s2 |-> "analyst"]
SessionIds == DOMAIN SessionRole
ToolNames == {get_price, charge, native_tool, no_such_tool}

\* invocations are numbered in the order they start
CallStart(c) ==
    /\ calls[c].pc = "idle"
    /\ \A d \in Calls : d < c => calls[d].pc # "idle"
    /\ \E toolName \in ToolNames, sessionId \in SessionIds :
         LET eff == StartEffects(c, toolName, SessionRole[sessionId], sessionId)
         IN  Apply(c, eff)
    /\ UNCHANGED <<policies, mcp_servers, mcp_tools, downstreamClients, liveClients, polQuery, sessionVars, adminVars>>

\* gateway.ts:148-155: nativeTool.tool.invoke(args) resolved
NativeReturn(c) ==
    /\ calls[c].pc = "native"
    /\ Apply(c, Effects(Succeed(calls[c], [from |-> "native", attempt |-> 0]),
                        logCall(call_logs, Row(c, calls[c].sessionId, calls[c].role,
                                               calls[c].serverName, calls[c].toolName,
                                               "success", NoMsg)),
                        timers, inflight))
    /\ UNCHANGED <<policies, mcp_servers, mcp_tools, downstreamClients, liveClients, polQuery, sessionVars, adminVars>>

\* nativeTool.tool.invoke(args) rejected
NativeThrow(c) ==
    /\ calls[c].pc = "native"
    /\ Apply(c, OuterCatch(c, calls[c], call_logs,
                           Err("NativeError", "-", calls[c].toolName, <<>>, 0),
                           timers, inflight))
    /\ UNCHANGED <<policies, mcp_servers, mcp_tools, downstreamClients, liveClients, polQuery, sessionVars, adminVars>>

\* gateway.ts:166-167 and 263-265: client.connect resolved; the client is cached and
\* the first attempt starts
ConnectOk(c) ==
    /\ calls[c].pc = "connecting"
    /\ downstreamClients' =
         [s \in DOMAIN downstreamClients \cup {calls[c].serverName} |->
            IF s = calls[c].serverName THEN calls[c].client ELSE downstreamClients[s]]
    /\ liveClients' = liveClients \cup {[id |-> calls[c].client, server |-> calls[c].serverName]}
    /\ Apply(c, BeginAttempt(c, calls[c], call_logs, timers, inflight, 1))
    /\ UNCHANGED <<policies, mcp_servers, mcp_tools, polQuery, sessionVars, adminVars>>

\* client.connect rejected (or connectToDownstream threw)
ConnectFail(c) ==
    /\ calls[c].pc = "connecting"
    /\ Apply(c, ConnectCatch(c, [calls[c] EXCEPT !.client = 0], call_logs, timers, inflight,
                             Err("ConnectError", "-", <<>>, calls[c].serverName, 0)))
    /\ UNCHANGED <<policies, mcp_servers, mcp_tools, downstreamClients, liveClients, polQuery, sessionVars, adminVars>>

CurrentRequest(c) == [client |-> calls[c].client, inv |-> c, attempt |-> calls[c].attempt]
CurrentTimer(c) ==
    [inv |-> c, attempt |-> calls[c].attempt, kind |-> "timeout", delay |-> TIMEOUT_MS]
BackoffTimer(c) ==
    [inv |-> c, attempt |-> calls[c].attempt, kind |-> "backoff",
     delay |-> BackoffDelay(calls[c].attempt)]

\* the downstream answers the current attempt's request with a result before the
\* attempt's timer fires
RespondOk(c) ==
    /\ calls[c].pc = "executing"
    /\ CurrentRequest(c) \in inflight
    /\ Apply(c, AttemptSucceeded(c, [calls[c] EXCEPT !.history = Append(@, "success")],
                                 call_logs, timers \ {CurrentTimer(c)},
                                 inflight \ {CurrentRequest(c)}))
    /\ UNCHANGED <<policies, mcp_servers, mcp_tools, downstreamClients, liveClients, polQuery, sessionVars, adminVars>>

\* the downstream answers the current attempt's request with an error (or the
\* request fails) before the attempt's timer fires
RespondError(c) ==
    /\ calls[c].pc = "executing"
    /\ CurrentRequest(c) \in inflight
    /\ Apply(c, AttemptFailed(c, [calls[c] EXCEPT !.history = Append(@, "error")],
                              call_logs, timers \ {CurrentTimer(c)},
                              inflight \ {CurrentRequest(c)},
                              Err("DownstreamError", "-", calls[c].toolName,
                                  calls[c].serverName, calls[c].attempt)))
    /\ UNCHANGED <<policies, mcp_servers, mcp_tools, downstreamClients, liveClients, polQuery, sessionVars, adminVars>>

\* the current attempt's timer fires first; the request is abandoned, not cancelled
Timeout(c) ==
    /\ calls[c].pc = "executing"
    /\ CurrentTimer(c) \in timers
    /\ Apply(c, AttemptFailed(c, [calls[c] EXCEPT !.history = Append(@, "timeout"),
                                                  !.delays = Append(@, TIMEOUT_MS)],
                              call_logs, timers \ {CurrentTimer(c)}, inflight,
                              Err("TimedOut", "-", <<>>, <<>>, calls[c].attempt)))
    /\ UNCHANGED <<policies, mcp_servers, mcp_tools, downstreamClients, liveClients, polQuery, sessionVars, adminVars>>

\* the backoff timer fires and the next loop iteration runs up to its await
BackoffDone(c) ==
    /\ calls[c].pc = "backoff"
    /\ BackoffTimer(c) \in timers
    /\ Apply(c, BeginAttempt(c, [calls[c] EXCEPT !.delays = Append(@, BackoffTimer(c).delay)],
                             call_logs, timers \ {BackoffTimer(c)}, inflight,
                             calls[c].attempt + 1))
    /\ UNCHANGED <<policies, mcp_servers, mcp_tools, downstreamClients, liveClients, polQuery, sessionVars, adminVars>>

\* an abandoned request is answered: the answer settles a promise nobody awaits
LateResponse(c) ==
    /\ \E q \in inflight :
         /\ q.inv = c
         /\ ~(calls[c].pc = "executing" /\ q = CurrentRequest(c))
         /\ inflight' = inflight \ {q}
    /\ UNCHANGED <<policies, mcp_servers, mcp_tools, downstreamClients, liveClients, call_logs, calls, timers, polQuery, sessionVars, adminVars>>

(***************************************************************************)
(* The stores and tables outside a callTool invocation, as the gateway     *)
(* specification and the policy specification hold them: after boot, with  *)
(* no session open and no registry write or listing made.                  *)
(***************************************************************************)
sk_admin_secret_key == "sk-admin-secret-key"

\* initializePolicySchema: INSERT INTO api_keys (key, name, role), is_active DEFAULT 1
SeedKey == [key |-> sk_admin_secret_key, name |-> "Bootstrap Admin", role |-> "admin",
            is_active |-> 1]

\* the api_keys table after boot, two createApiKey calls and one deactivation
StoredKeys ==
    {SeedKey,
     [key |-> "sk-analyst", name |-> "desk", role |-> "analyst", is_active |-> 1],
     [key |-> "sk-revoked", name |-> "former", role |-> "user", is_active |-> 0]}

Sids == 1..MaxSessions

NoSecret == "-"

\* a session id that crypto.randomUUID() has not produced yet
NoSession == [pc |-> "none", apiKey |-> NoSecret, role |-> "-", aborted |-> FALSE,
              onAbort |-> FALSE, onclose |-> 0, delivered |-> <<>>]

NoResp == [apiKey |-> NoSecret, status |-> 0]

Posts == 1..MaxPosts
IdlePost == [pc |-> "idle", sessionId |-> 0, body |-> "-", found |-> FALSE, status |-> 0]
NoReg == [op |-> "none", name |-> <<>>, transport_type |-> "-", config |-> "-",
          serverId |-> 0, tools |-> <<>>, ok |-> TRUE, beforeTools |-> <<>>]
NoList == [role |-> "-", tools |-> <<>>]
NotBooted == [booted |-> FALSE, seeded |-> FALSE, result |-> "none"]
Booted == [booted |-> TRUE, seeded |-> TRUE, result |-> "ok"]

SessionsIdle ==
    /\ api_keys = StoredKeys
    /\ activeSessions = <<>>
    /\ sess = [s \in Sids |-> NoSession]
    /\ httpResp = NoResp
    /\ posts = [n \in Posts |-> IdlePost]

AdminIdle ==
    /\ regResult = NoReg
    /\ listed = NoList
    /\ boot = Booted

NoQuery == [role |-> "-", serverName |-> <<>>, toolName |-> <<>>, result |-> FALSE]

analyst_rule == [role |-> "analyst", resource |-> research \o <<":", "*">>, action |-> "allow"]

Init ==
    /\ policies = SeedPolicies \cup {analyst_rule}
    /\ mcp_servers = <<[id |-> 1, name |-> research, transport_type |-> "stdio",
                        config |-> "cmd", status |-> "active"],
                       [id |-> 2, name |-> payment, transport_type |-> "sse",
                        config |-> "url", status |-> "active"]>>
    /\ mcp_tools = <<[server_id |-> 1, name |-> get_price],
                     [server_id |-> 2, name |-> charge]>>
    /\ downstreamClients = <<>>
    /\ liveClients = {}
    /\ call_logs = {}
    /\ calls = [c \in Calls |-> IdleCall]
    /\ timers = {}
    /\ inflight = {}
    /\ polQuery = NoQuery
    /\ SessionsIdle
    /\ AdminIdle

Next ==
    \E c \in Calls :
        \/ CallStart(c)
        \/ NativeReturn(c)
        \/ NativeThrow(c)
        \/ ConnectOk(c)
        \/ ConnectFail(c)
        \/ RespondOk(c)
        \/ RespondError(c)
        \/ Timeout(c)
        \/ BackoffDone(c)
        \/ LateResponse(c)

Spec == Init /\ [][Next]_vars

\* The gateway's own timers fire: a callback given to setTimeout (gateway.ts:186-188,
\* 214) is run by the event loop once its delay has passed. Nothing obliges a native
\* tool, a connecting transport or a downstream server to answer.
TimersFire == \A c \in Calls : WF_vars(Timeout(c)) /\ WF_vars(BackoffDone(c))

SpecTimers == Init /\ [][Next]_vars /\ TimersFire

(***************************************************************************)
(* Policy specification: canAccess on every role, server name and tool     *)
(* name, over policy tables that hold the seeded rule, one rule for the    *)
(* analyst role and other roles' and deny rules.                           *)
(***************************************************************************)
NameChars == {"a", "b", ":"}
PatternChars == NameChars \cup {"*"}

Strings(chars, n) == UNION {[1..k -> chars] : k \in 1..n}

\* non-empty server and tool names, non-empty resource patterns
Names == Strings(NameChars, MaxNameLen)
Patterns == Strings(PatternChars, MaxPatternLen)

PolicyRoles == {"admin", "analyst", "user"}

OtherRules == {[role |-> "user", resource |-> <<"*">>, action |-> "allow"],
               [role |-> "analyst", resource |-> <<"*">>, action |-> "deny"]}

InitPolicy ==
    /\ \E pattern \in Patterns, action \in {"allow", "deny"}, others \in SUBSET OtherRules :
         policies = SeedPolicies \cup others
                    \cup {[role |-> "analyst", resource |-> pattern, action |-> action]}
    /\ mcp_servers = <<>>
    /\ mcp_tools = <<>>
    /\ downstreamClients = <<>>
    /\ liveClients = {}
    /\ call_logs = {}
    /\ calls = [c \in Calls |-> IdleCall]
    /\ timers = {}
    /\ inflight = {}
    /\ polQuery = NoQuery
    /\ SessionsIdle
    /\ AdminIdle

\* one canAccess call per behaviour
CheckAccess ==
    /\ polQuery = NoQuery
    /\ \E role \in PolicyRoles, serverName \in Names, toolName \in Names :
         polQuery' = [role |-> role, serverName |-> serverName, toolName |-> toolName,
                      result |-> canAccess(role, serverName, toolName)]
    /\ UNCHANGED <<policies, mcp_servers, mcp_tools, downstreamClients, liveClients,
                   call_logs, calls, timers, inflight, sessionVars, adminVars>>

NextPolicy == CheckAccess

SpecPolicy == InitPolicy /\ [][NextPolicy]_vars

(***************************************************************************)
(* Session routes (GET /sse, POST /messages) and HonoSSETransport          *)
(***************************************************************************)
NoHeader == [scheme |-> "-", secret |-> NoSecret]
Secrets == {"", sk_admin_secret_key, "sk-analyst", "sk-revoked", "sk-unknown"}
AuthHeaders == {NoHeader, [scheme |-> "Basic", secret |-> "sk-analyst"]}
               \cup [scheme : {"Bearer"}, secret : Secrets]
QueryKeys == {NoSecret, sk_admin_secret_key, "sk-revoked"}

\* the Authorization header if it starts with 'Bearer ', else the apiKey query
\* parameter if it is truthy, else ''
ApiKeyOf(authHeader, queryKey) ==
    IF authHeader # NoHeader /\ authHeader.scheme = "Bearer" THEN authHeader.secret
    ELSE IF queryKey # NoSecret /\ queryKey # "" THEN queryKey
    ELSE ""

\* a lookup that ignores the is_active flag
verifyApiKeyAnyStatus(key) == {r \in api_keys : r.key = key}

\* SELECT * FROM api_keys WHERE key = ? AND is_active = 1 (the matching rows: empty
\* or one, key is UNIQUE)
verifyApiKey(key) == {r \in api_keys : r.key = key /\ r.is_active = 1}

\* crypto.randomUUID(): an id no session has had
FreshSids == {s \in Sids : sess[s].pc = "none"}

\* GET /sse up to the first await of the stream callback (server.connect ->
\* transport.start -> stream.writeSSE)
OpenSession ==
    /\ \E authHeader \in AuthHeaders, queryKey \in QueryKeys :
           LET apiKey == ApiKeyOf(authHeader, queryKey)
               user == verifyApiKey(apiKey)
           IN  IF apiKey = "" \/ user = {}
               THEN /\ httpResp' = [apiKey |-> apiKey, status |-> 401]
                    /\ UNCHANGED <<activeSessions, sess>>
               ELSE \E sessionId \in FreshSids, u \in user :
                      /\ \A t \in FreshSids : sessionId <= t
                      /\ activeSessions' =
                           [t \in DOMAIN activeSessions \cup {sessionId} |->
                              IF t = sessionId THEN [role |-> u.role] ELSE activeSessions[t]]
                      /\ sess' = [sess EXCEPT ![sessionId] =
                                    [@ EXCEPT !.pc = "connecting", !.apiKey = apiKey,
                                              !.role = u.role]]
                      /\ httpResp' = [apiKey |-> apiKey, status |-> 200]
    /\ UNCHANGED <<policies, mcp_servers, mcp_tools, downstreamClients, liveClients, call_logs, calls, timers, inflight, polQuery, api_keys, posts, adminVars>>

\* server.connect resolved: stream.onAbort registers the teardown handler, then the
\* keep-alive loop tests activeSessions.has(sessionId) and sleeps
ConnectDone(s) ==
    /\ sess[s].pc = "connecting"
    /\ sess' = [sess EXCEPT ![s] =
                  [@ EXCEPT !.onAbort = TRUE,
                            !.pc = IF s \in DOMAIN activeSessions THEN "open" ELSE "done"]]
    /\ UNCHANGED <<policies, mcp_servers, mcp_tools, downstreamClients, liveClients, call_logs, calls, timers, inflight, polQuery, api_keys, activeSessions, httpResp, posts, adminVars>>

\* a teardown that empties the table
ClearSessions(sessions, sessionId) == <<>>

\* activeSessions.delete(sessionId)
DeleteSession(sessions, sessionId) ==
    [t \in DOMAIN sessions \ {sessionId} |-> sessions[t]]

\* the client drops the stream: the stream runs the abort listeners registered so
\* far, once.  The listener of part_007:67-71 calls transport.close(), which signals
\* onclose, and deletes the session
ClientAbort(s) ==
    /\ sess[s].pc \in {"connecting", "open"}
    /\ ~sess[s].aborted
    /\ IF sess[s].onAbort
       THEN /\ sess' = [sess EXCEPT ![s] =
                          [@ EXCEPT !.aborted = TRUE, !.onclose = @ + 1]]
            /\ activeSessions' = DeleteSession(activeSessions, s)
       ELSE /\ sess' = [sess EXCEPT ![s] = [@ EXCEPT !.aborted = TRUE]]
            /\ UNCHANGED activeSessions
    /\ UNCHANGED <<policies, mcp_servers, mcp_tools, downstreamClients, liveClients, call_logs, calls, timers, inflight, polQuery, api_keys, httpResp, posts, adminVars>>

\* the keep-alive loop wakes and finds the session gone: the stream callback returns
PollExit(s) ==
    /\ sess[s].pc = "open"
    /\ s \notin DOMAIN activeSessions
    /\ sess' = [sess EXCEPT ![s] = [@ EXCEPT !.pc = "done"]]
    /\ UNCHANGED <<policies, mcp_servers, mcp_tools, downstreamClients, liveClients, call_logs, calls, timers, inflight, polQuery, api_keys, activeSessions, httpResp, posts, adminVars>>

\* the status of a POST that is answered before its body is read; 0 when it goes on
\* to read the body.  Here the body is read before the session is looked up
PostParseFirst(sessionId, body) ==
    IF sessionId = 0 THEN 400
    ELSE IF body # "json" THEN 400
    ELSE IF sessionId \notin DOMAIN activeSessions THEN 404
    ELSE 0

\* the status of a POST that is answered before its body is read; 0 when it goes on
\* to read the body (part_007:82-91)
PostLookup(sessionId, body) ==
    IF sessionId = 0 THEN 400
    ELSE IF sessionId \notin DOMAIN activeSessions THEN 404
    ELSE 0

\* POST /messages up to `await c.req.json()`; requests are numbered in the order
\* they arrive; sessionId 0 is a request without the query parameter
PostStart(n) ==
    /\ posts[n].pc = "idle"
    /\ \A m \in Posts : m < n => posts[m].pc # "idle"
    /\ \E sessionId \in {0} \cup Sids, body \in {"json", "garbage"} :
         LET status == PostLookup(sessionId, body)
         IN  posts' = [posts EXCEPT ![n] =
                         [pc |-> IF status = 0 THEN "reading" ELSE "done",
                          sessionId |-> sessionId, body |-> body,
                          found |-> sessionId \in DOMAIN activeSessions,
                          status |-> status]]
    /\ UNCHANGED <<policies, mcp_servers, mcp_tools, downstreamClients, liveClients, call_logs, calls, timers, inflight, polQuery, api_keys, activeSessions, sess, httpResp, adminVars>>

\* the body has been read: c.req.json() throws on a body that is not JSON (400),
\* else transport.handleMessage hands the message to onmessage, which server.connect
\* set before the session could be looked up, and the POST is answered 202
PostBody(n) ==
    /\ posts[n].pc = "reading"
    /\ IF posts[n].body = "json"
       THEN /\ sess' = [sess EXCEPT ![posts[n].sessionId] =
                          [@ EXCEPT !.delivered = Append(@, n)]]
            /\ posts' = [posts EXCEPT ![n] = [@ EXCEPT !.pc = "done", !.status = 202]]
       ELSE /\ posts' = [posts EXCEPT ![n] = [@ EXCEPT !.pc = "done", !.status = 400]]
            /\ UNCHANGED sess
    /\ UNCHANGED <<policies, mcp_servers, mcp_tools, downstreamClients, liveClients, call_logs, calls, timers, inflight, polQuery, api_keys, activeSessions, httpResp, adminVars>>

\* the session specification starts after boot with the key table of StoredKeys, no
\* session, and a downstream-connection cache that is empty or holds the connection
\* an earlier call made
InitSession ==
    /\ policies = SeedPolicies \cup {analyst_rule}
    /\ mcp_servers = <<[id |-> 1, name |-> research, transport_type |-> "stdio",
                        config |-> "cmd", status |-> "active"]>>
    /\ mcp_tools = <<[server_id |-> 1, name |-> get_price]>>
    /\ \E cached \in BOOLEAN :
         /\ downstreamClients = IF cached THEN [s \in {research} |-> 1] ELSE <<>>
         /\ liveClients = IF cached THEN {[id |-> 1, server |-> research]} ELSE {}
    /\ call_logs = {}
    /\ calls = [c \in Calls |-> IdleCall]
    /\ timers = {}
    /\ inflight = {}
    /\ polQuery = NoQuery
    /\ SessionsIdle
    /\ AdminIdle

NextSession ==
    \/ OpenSession
    \/ \E s \in Sids :
         \/ ConnectDone(s)
         \/ ClientAbort(s)
         \/ PollExit(s)
    \/ \E n \in Posts :
         \/ PostStart(n)
         \/ PostBody(n)

SpecSession == InitSession /\ [][NextSession]_vars

(***************************************************************************)
(* RegistryService writes and GatewayService.listTools                     *)
(***************************************************************************)
\* an upsert that keeps the stored row on a name conflict
registerServerKeepFirst(servers, name, type, config) ==
    IF \E i \in DOMAIN servers : servers[i].name = name THEN servers
    ELSE Append(servers, [id |-> Len(servers) + 1, name |-> name, transport_type |-> type,
                          config |-> config, status |-> "active"])

\* an insert that replaces the stored row on a name conflict: the row is deleted and a
\* new one inserted, with a new id and the default status
registerServerReplace(servers, name, type, config) ==
    Append(SelectSeq(servers, LAMBDA r : r.name # name),
           [id |-> Len(servers) + 1, name |-> name, transport_type |-> type,
            config |-> config, status |-> "active"])

\* INSERT INTO mcp_servers (name, transport_type, config) ... ON CONFLICT(name) DO
\* UPDATE SET transport_type, config.  No row is ever deleted, so the AUTOINCREMENT id
\* of a new row is the number of rows plus one; status takes its default
registerServer(servers, name, type, config) ==
    IF \E i \in DOMAIN servers : servers[i].name = name
    THEN [i \in DOMAIN servers |->
            IF servers[i].name = name
            THEN [servers[i] EXCEPT !.transport_type = type, !.config = config]
            ELSE servers[i]]
    ELSE Append(servers, [id |-> Len(servers) + 1, name |-> name, transport_type |-> type,
                          config |-> config, status |-> "active"])

\* RETURNING id
ServerId(servers, name) ==
    (CHOOSE r \in {servers[i] : i \in DOMAIN servers} : r.name = name).id

\* an update that leaves the stored rows in place
KeepTools(rows, serverId) == rows

\* DELETE FROM mcp_tools WHERE server_id = ?
DeleteTools(rows, serverId) == SelectSeq(rows, LAMBDA r : r.server_id # serverId)

\* the insert loop: insert.run for each tool in order, until one throws.  An insert
\* throws when the name is missing (NOT NULL) or when the server already has a row of
\* that name (UNIQUE(server_id, name)); rows is the table as the loop left it
RECURSIVE InsertTools(_, _, _, _)
InsertTools(rows, serverId, tools, i) ==
    IF i > Len(tools) THEN [ok |-> TRUE, rows |-> rows]
    ELSE IF \/ tools[i] = undefined
            \/ \E k \in DOMAIN rows : rows[k].server_id = serverId /\ rows[k].name = tools[i]
         THEN [ok |-> FALSE, rows |-> rows]
         ELSE InsertTools(Append(rows, [server_id |-> serverId, name |-> tools[i]]),
                          serverId, tools, i + 1)

\* the same statements outside a transaction
updateToolsNoTransaction(rows, serverId, tools) ==
    InsertTools(DeleteTools(rows, serverId), serverId, tools, 1)

\* db.transaction(() => { DELETE; for (const tool of tools) insert.run(...) })():
\* a throw inside rolls the table back and is re-thrown
updateTools(rows, serverId, tools) ==
    LET r == InsertTools(DeleteTools(rows, serverId), serverId, tools, 1)
    IN  IF r.ok THEN r ELSE [ok |-> FALSE, rows |-> rows]

\* the names of the rows a server has in mcp_tools, in rowid order
RECURSIVE ToolNamesOf(_, _, _)
ToolNamesOf(rows, serverId, i) ==
    IF i > Len(rows) THEN <<>>
    ELSE IF rows[i].server_id = serverId
         THEN <<rows[i].name>> \o ToolNamesOf(rows, serverId, i + 1)
         ELSE ToolNamesOf(rows, serverId, i + 1)

RegNames == {research, payment}
TransportKinds == {"stdio", "sse"}
Configs == {"cmd", "url"}
\* tool lists of up to MaxTools named tools, and one whose second tool has no name
ToolLists == UNION {[1..k -> {get_price, charge}] : k \in 0..MaxTools}
             \cup {<<get_price, undefined>>}

\* RegistryService.registerServer, as POST /api/registry/servers and the registration
\* script call it
RegisterServer ==
    /\ \E name \in RegNames, type \in TransportKinds, config \in Configs :
         /\ mcp_servers' = registerServer(mcp_servers, name, type, config)
         /\ regResult' = [op |-> "registerServer", name |-> name, transport_type |-> type,
                          config |-> config, serverId |-> ServerId(mcp_servers', name),
                          tools |-> <<>>, ok |-> TRUE, beforeTools |-> <<>>]
    /\ UNCHANGED <<policies, mcp_tools, downstreamClients, liveClients, call_logs, calls, timers, inflight, polQuery, sessionVars, listed, boot>>

\* RegistryService.updateTools for the id of a registered server, as
\* POST /api/registry/servers/:name/tools and the registration script call it
UpdateTools ==
    /\ \E k \in DOMAIN mcp_servers, tools \in ToolLists :
         LET serverId == mcp_servers[k].id
             r == updateTools(mcp_tools, serverId, tools)
         IN  /\ mcp_tools' = r.rows
             /\ regResult' = [op |-> "updateTools", name |-> mcp_servers[k].name,
                              transport_type |-> "-", config |-> "-", serverId |-> serverId,
                              tools |-> tools, ok |-> r.ok,
                              beforeTools |-> ToolNamesOf(mcp_tools, serverId, 1)]
    /\ UNCHANGED <<policies, mcp_servers, downstreamClients, liveClients, call_logs, calls, timers, inflight, polQuery, sessionVars, listed, boot>>

\* allTools.filter(t => PolicyService.canAccess(role, t.server_name, t.tool_name))
RECURSIVE FilterAccess(_, _, _)
FilterAccess(tools, role, i) ==
    IF i > Len(tools) THEN <<>>
    ELSE IF canAccess(role, tools[i].server_name, tools[i].tool_name)
         THEN <<tools[i]>> \o FilterAccess(tools, role, i + 1)
         ELSE FilterAccess(tools, role, i + 1)

\* allowedTools.map(t => ({ name: t.tool_name, ... }))
RECURSIVE ToolEntries(_, _)
ToolEntries(tools, i) ==
    IF i > Len(tools) THEN <<>>
    ELSE <<[name |-> tools[i].tool_name]>> \o ToolEntries(tools, i + 1)

\* a listing that skips the policy filter
listToolsUnfiltered(role) == ToolEntries(allTools, 1)

\* GatewayService.listTools(role)
listTools(role) == ToolEntries(FilterAccess(allTools, role, 1), 1)

\* one listTools call per behaviour
ListTools ==
    /\ listed = NoList
    /\ \E role \in PolicyRoles : listed' = [role |-> role, tools |-> listTools(role)]
    /\ UNCHANGED <<policies, mcp_servers, mcp_tools, downstreamClients, liveClients, call_logs, calls, timers, inflight, polQuery, sessionVars, regResult, boot>>

\* the registry specification starts after boot with empty registry tables and the
\* policy table of the gateway specification
InitRegistry ==
    /\ policies = SeedPolicies \cup {analyst_rule}
    /\ mcp_servers = <<>>
    /\ mcp_tools = <<>>
    /\ downstreamClients = <<>>
    /\ liveClients = {}
    /\ call_logs = {}
    /\ calls = [c \in Calls |-> IdleCall]
    /\ timers = {}
    /\ inflight = {}
    /\ polQuery = NoQuery
    /\ SessionsIdle
    /\ AdminIdle

NextRegistry ==
    \/ RegisterServer
    \/ UpdateTools

SpecRegistry == InitRegistry /\ [][NextRegistry]_vars

\* the tool lists a successful updateTools can leave for a server
StoredToolLists == {<<>>, <<get_price>>, <<charge>>, <<get_price, charge>>, <<charge, get_price>>}

\* the listing specification: listTools for every role over registries of two active
\* servers in every state updateTools can leave their tools, and policy tables that
\* hold the seeded rule and one rule for the analyst role
ListPatterns ==
    {<<"*">>, research \o <<":", "*">>, <<"*", ":">> \o get_price, payment \o <<":">> \o charge,
     k_dexter_native \o <<":", "*">>}

RECURSIVE ToolRows(_, _, _)
ToolRows(serverId, names, i) ==
    IF i > Len(names) THEN <<>>
    ELSE <<[server_id |-> serverId, name |-> names[i]]>> \o ToolRows(serverId, names, i + 1)

InitList ==
    /\ \E pattern \in ListPatterns, action \in {"allow", "deny"} :
         policies = SeedPolicies
                    \cup {[role |-> "analyst", resource |-> pattern, action |-> action]}
    /\ mcp_servers = <<[id |-> 1, name |-> research, transport_type |-> "stdio",
                        config |-> "cmd", status |-> "active"],
                       [id |-> 2, name |-> payment, transport_type |-> "sse",
                        config |-> "url", status |-> "active"]>>
    /\ \E t1 \in StoredToolLists, t2 \in StoredToolLists, first \in {1, 2} :
         mcp_tools = IF first = 1 THEN ToolRows(1, t1, 1) \o ToolRows(2, t2, 1)
                     ELSE ToolRows(2, t2, 1) \o ToolRows(1, t1, 1)
    /\ downstreamClients = <<>>
    /\ liveClients = {}
    /\ call_logs = {}
    /\ calls = [c \in Calls |-> IdleCall]
    /\ timers = {}
    /\ inflight = {}
    /\ polQuery = NoQuery
    /\ SessionsIdle
    /\ AdminIdle

NextList == ListTools

SpecList == InitList /\ [][NextList]_vars

(***************************************************************************)
(* Boot (initializePolicySchema), PolicyService.createApiKey and the rows   *)
(* an operator writes into the policy store                                *)
(***************************************************************************)
\* a seeding check that looks at active rows only
AdminRowsActive(keys) == {r \in keys : r.role = "admin" /\ r.is_active = 1}

\* SELECT * FROM api_keys WHERE role = 'admin'
AdminRows(keys) == {r \in keys : r.role = "admin"}

\* INSERT OR IGNORE INTO policies under UNIQUE(role, resource)
InsertOrIgnore(rows, rules) ==
    rows \cup {n \in rules : ~\E r \in rows : r.role = n.role /\ r.resource = n.resource}

\* initializePolicySchema: the tables are created if they do not exist, the default
\* administrator key is inserted if the SELECT finds no row, the administrator rule is
\* inserted or ignored.  An INSERT of a key that is already stored violates UNIQUE(key)
\* and throws before the rule is seeded
Boot ==
    /\ LET seed == AdminRows(api_keys) = {}
           clash == \E r \in api_keys : r.key = sk_admin_secret_key
       IN  IF seed /\ clash
           THEN /\ boot' = [booted |-> TRUE, seeded |-> TRUE, result |-> "error"]
                /\ UNCHANGED <<api_keys, policies>>
           ELSE /\ api_keys' = IF seed THEN api_keys \cup {SeedKey} ELSE api_keys
                /\ policies' = InsertOrIgnore(policies, SeedPolicies)
                /\ boot' = [booted |-> TRUE, seeded |-> seed, result |-> "ok"]
    /\ UNCHANGED <<mcp_servers, mcp_tools, downstreamClients, liveClients, call_logs, calls, timers, inflight, polQuery, activeSessions, sess, httpResp, posts, regResult, listed>>

\* `sk-${crypto.randomUUID()}`: a secret no row holds
RandomKeys == <<"sk-uuid-1", "sk-uuid-2", "sk-uuid-3", "sk-uuid-4">>
CreatedKeys == {r \in api_keys : r.key # sk_admin_secret_key}

\* PolicyService.createApiKey(name, role)
CreateApiKey ==
    /\ boot.booted
    /\ Cardinality(CreatedKeys) < MaxKeys
    /\ \E role \in {"admin", "user"} :
         api_keys' = api_keys \cup {[key |-> RandomKeys[Cardinality(CreatedKeys) + 1],
                                     name |-> "agent", role |-> role, is_active |-> 1]}
    /\ UNCHANGED <<policies, mcp_servers, mcp_tools, downstreamClients, liveClients, call_logs, calls, timers, inflight, polQuery, activeSessions, sess, httpResp, posts, adminVars>>

\* deactivation of a key: the operator flips is_active, the row stays
DeactivateKey ==
    /\ \E r \in api_keys :
         /\ r.is_active = 1
         /\ api_keys' = (api_keys \ {r}) \cup {[r EXCEPT !.is_active = 0]}
    /\ UNCHANGED <<policies, mcp_servers, mcp_tools, downstreamClients, liveClients, call_logs, calls, timers, inflight, polQuery, activeSessions, sess, httpResp, posts, adminVars>>

\* the rules an operator adds: an INSERT into policies, which UNIQUE(role, resource)
\* refuses when the role has a rule for the resource
OperatorRules ==
    [role : {"admin", "analyst"}, resource : {<<"*">>, research \o <<":", "*">>},
     action : {"allow", "deny"}]

InsertPolicy ==
    /\ boot.booted
    /\ \E rule \in OperatorRules :
         /\ ~\E r \in policies : r.role = rule.role /\ r.resource = rule.resource
         /\ policies' = policies \cup {rule}
    /\ UNCHANGED <<mcp_servers, mcp_tools, downstreamClients, liveClients, call_logs, calls, timers, inflight, polQuery, sessionVars, adminVars>>

\* the boot specification starts from an empty store: no table exists
InitBoot ==
    /\ policies = {}
    /\ api_keys = {}
    /\ boot = NotBooted
    /\ mcp_servers = <<>>
    /\ mcp_tools = <<>>
    /\ downstreamClients = <<>>
    /\ liveClients = {}
    /\ call_logs = {}
    /\ calls = [c \in Calls |-> IdleCall]
    /\ timers = {}
    /\ inflight = {}
    /\ polQuery = NoQuery
    /\ activeSessions = <<>>
    /\ sess = [s \in Sids |-> NoSession]
    /\ httpResp = NoResp
    /\ posts = [n \in Posts |-> IdlePost]
    /\ regResult = NoReg
    /\ listed = NoList

NextBoot ==
    \/ Boot
    \/ CreateApiKey
    \/ DeactivateKey
    \/ InsertPolicy

SpecBoot == InitBoot /\ [][NextBoot]_vars

(***************************************************************************)
(* Agent specifications: the request handlers that GET /sse installs for a *)
(* session (part_007:55-61), run by the messages POSTed to it.             *)
(***************************************************************************)
\* the session id as the handlers pass it to callTool
SessionUuid(s) == "s" \o ToString(s)

\* a handler that resolves the role from the key table at every request
HandlerRoleFromKeys(s) ==
    LET rows == {r \in api_keys : r.key = sess[s].apiKey}
    IN  IF rows = {} THEN sess[s].role ELSE (CHOOSE r \in rows : TRUE).role

\* user.role as the handlers' closure holds it: the role of the row that verifyApiKey
\* returned when the session was opened
HandlerRole(s) == sess[s].role

\* the tools an agent asks for: one of the registered server, one of the native
\* catalog, one that nobody holds
AgentTools == {get_price, native_tool, no_such_tool}

\* POST /messages from `await c.req.json()` on, for a body that is a tools/call
\* request: handleMessage hands it to onmessage, the CallToolRequest handler calls
\* gatewayService.callTool(name, arguments, user.role, sessionId), which runs up to its
\* first await, and the POST is answered 202
PostCallTool(n) ==
    /\ n \in Calls
    /\ posts[n].pc = "reading"
    /\ posts[n].body = "json"
    /\ calls[n].pc = "idle"
    /\ sess' = [sess EXCEPT ![posts[n].sessionId] = [@ EXCEPT !.delivered = Append(@, n)]]
    /\ posts' = [posts EXCEPT ![n] = [@ EXCEPT !.pc = "done", !.status = 202]]
    /\ \E toolName \in AgentTools :
         Apply(n, StartEffects(n, toolName, HandlerRole(posts[n].sessionId),
                               SessionUuid(posts[n].sessionId)))
    /\ UNCHANGED <<policies, mcp_servers, mcp_tools, downstreamClients, liveClients, polQuery, api_keys, activeSessions, httpResp, adminVars>>

\* the same for a body that is a tools/list request: the ListToolsRequest handler
\* returns gatewayService.listTools(user.role)
PostListTools(n) ==
    /\ posts[n].pc = "reading"
    /\ posts[n].body = "json"
    /\ sess' = [sess EXCEPT ![posts[n].sessionId] = [@ EXCEPT !.delivered = Append(@, n)]]
    /\ posts' = [posts EXCEPT ![n] = [@ EXCEPT !.pc = "done", !.status = 202]]
    /\ listed' = [role |-> HandlerRole(posts[n].sessionId),
                  tools |-> listTools(HandlerRole(posts[n].sessionId))]
    /\ UNCHANGED <<policies, mcp_servers, mcp_tools, downstreamClients, liveClients, call_logs, calls, timers, inflight, polQuery, api_keys, activeSessions, httpResp, regResult, boot>>

\* the operator gives a key another role: an UPDATE of api_keys.role, the row stays
ChangeKeyRole ==
    /\ \E r \in api_keys, role \in {"admin", "analyst"} :
         /\ r.role # role
         /\ api_keys' = (api_keys \ {r}) \cup {[r EXCEPT !.role = role]}
    /\ UNCHANGED <<policies, mcp_servers, mcp_tools, downstreamClients, liveClients, call_logs, calls, timers, inflight, polQuery, activeSessions, sess, httpResp, posts, adminVars>>

\* a session that GET /sse has opened for that key and role, its stream connected
OpenedSession(apiKey, role) ==
    [NoSession EXCEPT !.pc = "open", !.apiKey = apiKey, !.role = role, !.onAbort = TRUE]

\* the gateway with the administrator's and the analyst's sessions open, no request
\* under way and no downstream connection made yet
InitAgent ==
    /\ policies = SeedPolicies \cup {analyst_rule}
    /\ mcp_servers = <<[id |-> 1, name |-> research, transport_type |-> "stdio",
                        config |-> "cmd", status |-> "active"]>>
    /\ mcp_tools = <<[server_id |-> 1, name |-> get_price]>>
    /\ downstreamClients = <<>>
    /\ liveClients = {}
    /\ call_logs = {}
    /\ calls = [c \in Calls |-> IdleCall]
    /\ timers = {}
    /\ inflight = {}
    /\ polQuery = NoQuery
    /\ api_keys = StoredKeys
    /\ activeSessions = [s \in {1, 2} |-> [role |-> IF s = 1 THEN "admin" ELSE "analyst"]]
    /\ sess = [s \in Sids |->
                 IF s = 1 THEN OpenedSession(sk_admin_secret_key, "admin")
                 ELSE IF s = 2 THEN OpenedSession("sk-analyst", "analyst")
                 ELSE NoSession]
    /\ httpResp = [apiKey |-> "sk-analyst", status |-> 200]
    /\ posts = [n \in Posts |-> IdlePost]
    /\ AdminIdle

NextAgent ==
    \/ \E s \in Sids :
         \/ ClientAbort(s)
         \/ PollExit(s)
    \/ \E n \in Posts :
         \/ PostStart(n)
         \/ PostBody(n)
         \/ PostCallTool(n)
    \/ \E c \in Calls :
         \/ NativeReturn(c)
         \/ NativeThrow(c)
         \/ ConnectOk(c)
         \/ ConnectFail(c)
         \/ RespondOk(c)
         \/ RespondError(c)
         \/ Timeout(c)
         \/ BackoffDone(c)
         \/ LateResponse(c)

SpecAgent == InitAgent /\ [][NextAgent]_vars

\* the role specification starts as the session specification does, with no
\* downstream connection made yet
InitRole == InitSession /\ downstreamClients = <<>>

\* the role specification: sessions are opened while the operator deactivates keys and
\* changes their roles, and one request, a tools/list or a tools/call, is POSTed
NextRole ==
    \/ OpenSession
    \/ DeactivateKey
    \/ ChangeKeyRole
    \/ \E s \in Sids : ConnectDone(s)
    \/ PostStart(1)
    \/ PostCallTool(1)
    \/ PostListTools(1)

SpecRole == InitRole /\ [][NextRole]_vars

(***************************************************************************)
(* Re-registration specification: registerServer over registries that hold *)
(* one or two servers, in any status, with their tools.                    *)
(***************************************************************************)
ServerStatuses == {"active", "inactive", "error"}

InitUpsert ==
    /\ policies = SeedPolicies \cup {analyst_rule}
    /\ \E s1, s2 \in ServerStatuses, second \in BOOLEAN,
          t1 \in {<<get_price>>, <<get_price, charge>>}, t2 \in {<<>>, <<charge>>} :
         /\ mcp_servers =
              <<[id |-> 1, name |-> research, transport_type |-> "stdio",
                 config |-> "cmd", status |-> s1]>>
              \o (IF second
                  THEN <<[id |-> 2, name |-> payment, transport_type |-> "sse",
                          config |-> "url", status |-> s2]>>
                  ELSE <<>>)
         /\ second \/ (s2 = "active" /\ t2 = <<>>)
         /\ mcp_tools = ToolRows(1, t1, 1) \o (IF second THEN ToolRows(2, t2, 1) ELSE <<>>)
    /\ downstreamClients = <<>>
    /\ liveClients = {}
    /\ call_logs = {}
    /\ calls = [c \in Calls |-> IdleCall]
    /\ timers = {}
    /\ inflight = {}
    /\ polQuery = NoQuery
    /\ SessionsIdle
    /\ AdminIdle

NextUpsert == RegisterServer

SpecUpsert == InitUpsert /\ [][NextUpsert]_vars

(***************************************************************************)
(* Catalog specification: one callTool invocation, from its start to its   *)
(* end, over the registries the registry routes, the registration script   *)
(* and an operator's status changes can leave: two downstream servers that *)
(* may hold a tool of the same name and may be inactive or in error, and   *)
(* the native catalog registered as a server of the native kind or not.    *)
(***************************************************************************)
RECURSIVE ConcatRows(_, _)
ConcatRows(lists, i) ==
    IF i > Len(lists) THEN <<>> ELSE lists[i] \o ConcatRows(lists, i + 1)

InitCatalog ==
    /\ \E pattern \in {research \o <<":", "*">>, payment \o <<":", "*">>} :
         policies = SeedPolicies
                    \cup {[role |-> "analyst", resource |-> pattern, action |-> "allow"]}
    /\ \E s1 \in {"active", "inactive"}, s2 \in {"active", "error"},
          t1 \in {<<get_price>>, <<get_price, native_tool>>},
          t2 \in {<<charge>>, <<get_price, charge>>},
          t3 \in {<<>>, <<native_tool>>, <<charge>>},
          first \in {1, 2} :
         /\ mcp_servers =
              <<[id |-> 1, name |-> research, transport_type |-> "stdio",
                 config |-> "cmd", status |-> s1],
                [id |-> 2, name |-> payment, transport_type |-> "sse",
                 config |-> "url", status |-> s2]>>
              \o (IF t3 = <<>> THEN <<>>
                  ELSE <<[id |-> 3, name |-> k_dexter_native, transport_type |-> "native",
                          config |-> "{}", status |-> "active"]>>)
         /\ mcp_tools =
              ConcatRows(IF first = 1
                         THEN <<ToolRows(1, t1, 1), ToolRows(2, t2, 1), ToolRows(3, t3, 1)>>
                         ELSE <<ToolRows(2, t2, 1), ToolRows(1, t1, 1), ToolRows(3, t3, 1)>>, 1)
    /\ downstreamClients = <<>>
    /\ liveClients = {}
    /\ call_logs = {}
    /\ calls = [c \in Calls |-> IdleCall]
    /\ timers = {}
    /\ inflight = {}
    /\ polQuery = NoQuery
    /\ SessionsIdle
    /\ AdminIdle

NextCatalog ==
    \/ CallStart(1)
    \/ NativeReturn(1)
    \/ NativeThrow(1)
    \/ ConnectOk(1)
    \/ ConnectFail(1)
    \/ RespondOk(1)
    \/ RespondError(1)
    \/ Timeout(1)
    \/ BackoffDone(1)
    \/ LateResponse(1)

SpecCatalog == InitCatalog /\ [][NextCatalog]_vars

(***************************************************************************)
(* Claims                                                                  *)
(***************************************************************************)
RowsOf(c) == {r \in call_logs : r.inv = c}
Done(c) == calls[c].pc = "done"
NoDispatch(c) ==
    /\ calls[c].nativeInvokes = 0
    /\ calls[c].connects = 0
    /\ calls[c].requests = 0
    /\ calls[c].client = 0
    /\ \A q \in inflight : q.inv # c
    /\ \A t \in timers : t.inv # c

\* C1: every completed callTool invocation has written exactly one call_logs row, so
\* getStats().total_calls equals the number of completed invocations.
C1_ExactlyOneRowPerCall ==
    /\ \A c \in Calls : Done(c) => Cardinality(RowsOf(c)) = 1
    /\ total_calls = Cardinality({c \in Calls : Done(c)})

\* C2: at most one downstream connection is ever established for a server name, under
\* every interleaving of calls that find the cache empty.
C2_AtMostOneConnectionPerServer ==
    \A k1, k2 \in liveClients : k1.server = k2.server => k1 = k2

\* C3: canAccess(R, s, t) is true iff some allow rule of R has the pattern '*', or a
\* pattern made of a server side in {'*', s}, a ':' and a tool side in {'*', t}; deny
\* rules and the rules of other roles do not count.
C3_Allowed(role, serverName, toolName) ==
    \E rule \in policies :
        /\ rule.role = role
        /\ rule.action = "allow"
        /\ \/ rule.resource = <<"*">>
           \/ \E pServer \in {<<"*">>, serverName}, pTool \in {<<"*">>, toolName} :
                rule.resource = pServer \o <<":">> \o pTool

\* C3 (formula): the value canAccess returned equals the condition C3 states, for the
\* role, server name and tool name it was called with.
C3_CanAccessIffAllowRule ==
    polQuery.role # "-" =>
        (polQuery.result <=> C3_Allowed(polQuery.role, polQuery.serverName, polQuery.toolName))

\* C4: a call whose role fails canAccess on the resolved owner and tool invokes no native
\* tool, opens no connection, sends no request, and has failed with the forbidden error
\* naming the role and the tool.
C4_AuthorizationPrecedesDispatch ==
    \A c \in Calls :
        (calls[c].resolved /\ ~canAccess(calls[c].role, calls[c].serverName, calls[c].toolName))
        => /\ NoDispatch(c)
           /\ Done(c)
           /\ calls[c].status = "error"
           /\ calls[c].error = Err("AccessDenied", calls[c].role, calls[c].toolName, <<>>, 0)

C4_Witness ==
    \E c \in Calls :
        /\ Done(c)
        /\ calls[c].resolved
        /\ calls[c].serverName = payment
        /\ ~canAccess(calls[c].role, calls[c].serverName, calls[c].toolName)

\* C5: a call for a tool name that is neither an active registered tool nor a native
\* tool fails with the not-found error, dispatches nothing, and every row it writes has
\* server_name 'unknown' and status error.
C5_NotFoundLogsUnknown ==
    \A c \in Calls :
        (calls[c].pc # "idle" /\ \A i \in DOMAIN allTools : allTools[i].tool_name # calls[c].toolName)
        => /\ Done(c)
           /\ calls[c].status = "error"
           /\ calls[c].error = Err("ToolNotFound", "-", calls[c].toolName, <<>>, 0)
           /\ NoDispatch(c)
           /\ RowsOf(c) # {}
           /\ \A r \in RowsOf(c) : r.server_name = unknown /\ r.status = "error"

C5_Witness ==
    \E c \in Calls :
        /\ Done(c)
        /\ calls[c].toolName = no_such_tool
        /\ \E r \in RowsOf(c) : r.server_name = unknown

\* the error with which attempt k of invocation c failed
AttemptError(c, k) ==
    IF calls[c].history[k] = "timeout"
    THEN Err("TimedOut", "-", <<>>, <<>>, k)
    ELSE Err("DownstreamError", "-", calls[c].toolName, calls[c].serverName, k)

\* C6: a downstream call sends at most 3 requests; it stops at the first attempt that
\* succeeds and returns that attempt's result; when all 3 attempts fail, the error
\* propagated and logged is the error of the third attempt.
C6_AtMostThreeAttempts ==
    \A c \in Calls :
        LET h == calls[c].history
        IN  /\ calls[c].requests <= 3
            /\ Len(h) <= calls[c].requests
            /\ \A k \in DOMAIN h : h[k] = "success" => k = Len(h) /\ Done(c)
            /\ (Done(c) /\ calls[c].status = "success" /\ h # <<>>)
               => /\ h[Len(h)] = "success"
                  /\ calls[c].requests = Len(h)
                  /\ calls[c].result = [from |-> "downstream", attempt |-> Len(h)]
            /\ (Done(c) /\ calls[c].status = "error" /\ h # <<>>)
               => /\ Len(h) = 3
                  /\ calls[c].requests = 3
                  /\ calls[c].error = AttemptError(c, 3)
                  /\ \E r \in RowsOf(c) :
                       r.error_message = Msg("Execution failed", AttemptError(c, 3))

C6_Witness ==
    \E c \in Calls :
        /\ Done(c)
        /\ calls[c].status = "error"
        /\ calls[c].history = <<"error", "error", "timeout">>

\* C7: the timeout is per attempt.  While an attempt awaits its request, exactly the
\* timer armed by that attempt is pending for the call; an attempt ended by its timer is
\* a failed attempt with the timeout error, followed after attempt 1 or 2 by the backoff
\* and a new attempt with its own timer, and after attempt 3 by the failure of the call;
\* no timer outlives its attempt to bound the call as a whole.
C7_TimeoutPerAttempt ==
    \A c \in Calls :
        LET h == calls[c].history
            mine == {t \in timers : t.inv = c /\ t.kind = "timeout"}
        IN  /\ calls[c].pc = "executing"
               => /\ calls[c].attempt = Len(h) + 1
                  /\ mine = {CurrentTimer(c)}
            /\ calls[c].pc # "executing" => mine = {}
            /\ (h # <<>> /\ h[Len(h)] = "timeout" /\ Len(h) <= MAX_RETRIES)
               => /\ calls[c].pc \in {"backoff", "executing"}
                  /\ calls[c].pc = "backoff" => calls[c].attempt = Len(h)
                  /\ calls[c].lastError = Err("TimedOut", "-", <<>>, <<>>, Len(h))
            /\ (h # <<>> /\ h[Len(h)] = "timeout" /\ Len(h) > MAX_RETRIES)
               => /\ Done(c)
                  /\ calls[c].error = Err("TimedOut", "-", <<>>, <<>>, Len(h))

C7_Witness ==
    \E c \in Calls :
        /\ calls[c].pc = "executing"
        /\ calls[c].attempt = 3
        /\ calls[c].history = <<"timeout", "timeout">>

\* C8 (Scenario B): a call to the subprocess-backed server whose 1st attempt times out
\* and whose 2nd attempt succeeds ends in success after 2 requests, with two distinct
\* delays elapsed (the timeout of attempt 1, then the backoff before attempt 2), and
\* writes exactly 1 row, a success row.
C8_ScenarioB ==
    \A c \in Calls :
        (/\ calls[c].history = <<"timeout", "success">>
         /\ \E srv \in getServer(calls[c].serverName) : srv.transport_type = "stdio")
        => /\ Done(c)
           /\ calls[c].status = "success"
           /\ calls[c].requests = 2
           /\ calls[c].delays = <<TIMEOUT_MS, BACKOFF_UNIT_MS>>
           /\ Cardinality(Range(calls[c].delays)) = 2
           /\ Cardinality(RowsOf(c)) = 1
           /\ \A r \in RowsOf(c) : r.status = "success"

C8_Witness ==
    \E c \in Calls :
        /\ Done(c)
        /\ calls[c].serverName = research
        /\ calls[c].history = <<"timeout", "success">>

\* C9: when a connection attempt of a call fails, the call fails with the connection
\* error and the cache then holds no entry for that server name (so that the next call
\* for that server connects again).
C9_FailedConnectLeavesNoEntry ==
    [][\A c \in Calls :
          (calls[c].pc = "connecting" /\ calls'[c].pc = "done")
          => /\ calls'[c].error.kind = "FailedToConnect"
             /\ calls[c].serverName \notin DOMAIN downstreamClients']_vars

\* C10: a connection is created only when the cache has no entry for the server, and a
\* cached entry is never removed or replaced: every later call uses that connection.
C10_CachedEntryIsPermanent ==
    [][/\ \A s \in DOMAIN downstreamClients :
            s \in DOMAIN downstreamClients' /\ downstreamClients'[s] = downstreamClients[s]
       /\ \A c \in Calls :
            (calls[c].pc = "idle" /\ calls'[c].pc = "connecting")
            => calls'[c].serverName \notin DOMAIN downstreamClients
       /\ \A c \in Calls :
            (calls[c].pc = "idle" /\ calls'[c].pc = "executing")
            => calls'[c].client = downstreamClients[calls'[c].serverName]]_vars


\* the secrets that open a session: keys of active api_keys rows
ActiveKeys == {r.key : r \in {k \in api_keys : k.is_active = 1}}

\* C11: a session-open request that presents no secret, an unknown secret or the secret
\* of an inactive key is answered 401, adds no session to the active-session table and
\* writes no call-log row; a session is added only by a request that presented the
\* secret of an active key and is answered 200.
C11_BadKeyOpensNoSession ==
    [][/\ (httpResp' # httpResp /\ httpResp'.apiKey \notin ActiveKeys)
            => /\ httpResp'.status = 401
               /\ UNCHANGED <<activeSessions, sess, call_logs>>
       /\ (DOMAIN activeSessions' \ DOMAIN activeSessions # {})
            => /\ httpResp'.status = 200
               /\ httpResp'.apiKey \in ActiveKeys]_vars

\* the secret of the deactivated key was refused while another session is open
C11_Witness ==
    /\ httpResp.status = 401
    /\ httpResp.apiKey = "sk-revoked"
    /\ DOMAIN activeSessions # {}

\* the sessions whose handler was handed the message of POST n
DeliveredTo(n) ==
    {s \in Sids : \E i \in DOMAIN sess[s].delivered : sess[s].delivered[i] = n}

\* C12: a message POST is answered 202 exactly when it names a session that was in the
\* active-session table and its body is well-formed; it is answered 404 when it names
\* a session that is not in the table, and 400 when it names no session or, naming a
\* session of the table, has a body that is not well-formed.  An accepted POST hands
\* its message to the handler of the session it names and to no other; a rejected
\* POST hands nothing to any handler.
C12_PostAcceptedIffSessionAndBody ==
    \A n \in Posts :
        /\ posts[n].pc = "done" =>
             /\ posts[n].status = 202 <=> (posts[n].found /\ posts[n].body = "json")
             /\ (posts[n].sessionId # 0 /\ ~posts[n].found) => posts[n].status = 404
             /\ (posts[n].sessionId = 0 \/ (posts[n].found /\ posts[n].body # "json"))
                  => posts[n].status = 400
        /\ IF posts[n].status = 202
           THEN DeliveredTo(n) = {posts[n].sessionId}
           ELSE DeliveredTo(n) = {}

\* one POST was accepted and delivered, another named an unknown session with a body
\* that is not well-formed
C12_Witness ==
    \E n, m \in Posts :
        /\ posts[n].status = 202
        /\ posts[n].sessionId \in DeliveredTo(n)
        /\ posts[m].status = 404
        /\ posts[m].body = "garbage"

\* C13: when the client aborts the stream of a session, at whatever point after the
\* session was created, the session is removed from the active-session table and
\* onclose is signalled.  Nothing but the abort listener removes a session and the
\* stream reports an abort once, so the removal is due at the latest when the stream
\* callback of an aborted session is past its setup (server.connect has returned).
C13_AbortRemovesSession ==
    \A s \in Sids :
        (sess[s].aborted /\ sess[s].pc # "connecting")
        => /\ s \notin DOMAIN activeSessions
           /\ sess[s].onclose > 0

\* C14: tearing down one session changes only that session: the table entries and
\* the transports of the other sessions, and the downstream-connection cache with
\* its connections, are as they were.
C14_TeardownFrame ==
    [][\A s \in Sids :
         (s \in DOMAIN activeSessions /\ s \notin DOMAIN activeSessions')
         => /\ \A t \in Sids \ {s} :
                 /\ t \in DOMAIN activeSessions <=> t \in DOMAIN activeSessions'
                 /\ t \in DOMAIN activeSessions => activeSessions'[t] = activeSessions[t]
                 /\ sess'[t] = sess[t]
            /\ downstreamClients' = downstreamClients
            /\ liveClients' = liveClients]_vars

\* one session was torn down while another is open and the cache holds a connection
C14_Witness ==
    \E s, t \in Sids :
        /\ sess[s].aborted /\ sess[s].onclose = 1 /\ s \notin DOMAIN activeSessions
        /\ t \in DOMAIN activeSessions
        /\ DOMAIN downstreamClients # {}


\* C15: after any sequence of registerServer calls mcp_servers holds at most one row
\* per name, and that row holds the transport kind and the config of the most recent
\* call for the name: a call leaves one row for its name with its kind and config,
\* and every row of another name as it was; nothing else writes the table.
C15_OneRowPerNameLatestWins ==
    [][/\ \A i, j \in DOMAIN mcp_servers' :
            mcp_servers'[i].name = mcp_servers'[j].name => i = j
       /\ (mcp_servers' # mcp_servers \/ (regResult' # regResult /\ regResult'.op = "registerServer"))
            => /\ regResult'.op = "registerServer"
               /\ \E i \in DOMAIN mcp_servers' :
                    /\ mcp_servers'[i].name = regResult'.name
                    /\ mcp_servers'[i].transport_type = regResult'.transport_type
                    /\ mcp_servers'[i].config = regResult'.config
                    /\ mcp_servers'[i].id = regResult'.serverId
               /\ \A i \in DOMAIN mcp_servers :
                    /\ i \in DOMAIN mcp_servers'
                    /\ mcp_servers'[i].id = mcp_servers[i].id
                    /\ mcp_servers'[i].name = mcp_servers[i].name
                    /\ mcp_servers[i].name # regResult'.name => mcp_servers'[i] = mcp_servers[i]]_vars

\* the server created first was registered again after a second server was created,
\* with another kind and config than the second server's
C15_Witness ==
    /\ Len(mcp_servers) = 2
    /\ regResult.op = "registerServer"
    /\ regResult.serverId = 1
    /\ mcp_servers[1].transport_type = "sse" /\ mcp_servers[1].config = "cmd"
    /\ mcp_servers[2].transport_type = "stdio" /\ mcp_servers[2].config = "url"

\* the ids of the registered servers
ServerIds == {mcp_servers[i].id : i \in DOMAIN mcp_servers}

\* a tool list that an insert loop cannot store: a missing name or a repeated name
Unstorable(tools) ==
    \/ \E i \in DOMAIN tools : tools[i] = undefined
    \/ \E i, j \in DOMAIN tools : i # j /\ tools[i] = tools[j]

\* C16: updateTools is atomic.  A call that fails part-way (a repeated tool name
\* violates the uniqueness of (serverId, name), a missing name violates NOT NULL)
\* leaves mcp_tools exactly as it was before the call; a call that succeeds leaves
\* the server with exactly the given tools and every other server's tools as they
\* were.  A call is one step, so no reader sees a state in between.
C16_UpdateToolsAtomic ==
    [][(regResult'.op = "updateTools" /\ (regResult' # regResult \/ mcp_tools' # mcp_tools))
       => /\ regResult'.ok <=> ~Unstorable(regResult'.tools)
          /\ IF regResult'.ok
             THEN /\ ToolNamesOf(mcp_tools', regResult'.serverId, 1) = regResult'.tools
                  /\ \A id \in ServerIds \ {regResult'.serverId} :
                       ToolNamesOf(mcp_tools', id, 1) = ToolNamesOf(mcp_tools, id, 1)
             ELSE mcp_tools' = mcp_tools]_vars

\* an update whose second tool repeats the first failed after its DELETE and first
\* insert, and the server still has the tool it had
C16_Witness ==
    /\ regResult.op = "updateTools"
    /\ ~regResult.ok
    /\ regResult.tools = <<get_price, get_price>>
    /\ regResult.beforeTools = <<charge>>
    /\ ToolNamesOf(mcp_tools, regResult.serverId, 1) = <<charge>>

\* C17: a server's tool set is replaced wholesale: once the server is registered
\* with tools T2, the active-tool listing (getAllTools) holds for that server exactly
\* the tools of T2, whatever tools it was registered with before.
C17_ToolsReplacedWholesale ==
    (regResult.op = "updateTools" /\ regResult.ok)
    => LET mine == SelectSeq(getAllTools, LAMBDA t : t.server_name = regResult.name)
       IN  /\ Len(mine) = Len(regResult.tools)
           /\ \A i \in DOMAIN mine : mine[i].tool_name = regResult.tools[i]

\* a server registered with one tool was registered again with another
C17_Witness ==
    /\ regResult.op = "updateTools"
    /\ regResult.ok
    /\ regResult.beforeTools = <<get_price>>
    /\ regResult.tools = <<charge>>

\* the tools of active registered servers and of the native catalog, as
\* <<owning server, tool>> pairs
Catalog ==
    {<<mcp_servers[k].name, mcp_tools[i].name>> :
        <<k, i>> \in {p \in (DOMAIN mcp_servers) \X (DOMAIN mcp_tools) :
                        /\ mcp_servers[p[1]].id = mcp_tools[p[2]].server_id
                        /\ mcp_servers[p[1]].status = "active"}}
    \cup {<<k_dexter_native, getToolRegistry[i]>> : i \in DOMAIN getToolRegistry}

\* C18: listTools(role) returns an entry for a tool if and only if the tool is in the
\* union of the active registry tools and the native catalog and canAccess(role,
\* owning server, tool) is true: for every tool name the listing has as many entries
\* as the union has tools of that name that the role may access.
C18_ListedIffAccessible ==
    listed # NoList
    => \A name \in {p[2] : p \in Catalog} \cup {listed.tools[j].name : j \in DOMAIN listed.tools} :
         Cardinality({j \in DOMAIN listed.tools : listed.tools[j].name = name})
         = Cardinality({p \in Catalog : p[2] = name /\ canAccess(listed.role, p[1], p[2])})

\* a listing for the analyst role that holds some tools of the union and not others
C18_Witness ==
    /\ listed.role = "analyst"
    /\ listed.tools # <<>>
    /\ Len(listed.tools) < Cardinality(Catalog)


\* the rows that hold the default administrator key
SeededRows(keys) == {r \in keys : r.key = sk_admin_secret_key}

\* C19: a boot inserts the default administrator key exactly when api_keys holds no
\* row with the administrator role, active or not, and never fails; so after any
\* number of boots from an empty store exactly one seeded row exists, and it has the
\* administrator role.
C19_SeedOnlyWithoutAdminRow ==
    [][/\ boot'.booted
            => /\ Cardinality(SeededRows(api_keys')) = 1
               /\ \A r \in SeededRows(api_keys') : r.role = "admin"
       /\ (boot' # boot \/ Cardinality(SeededRows(api_keys')) # Cardinality(SeededRows(api_keys)))
            => /\ boot'.result = "ok"
               /\ boot'.seeded <=> ~\E r \in api_keys : r.role = "admin"
               /\ boot'.seeded <=> SeedKey \in api_keys' \ api_keys]_vars

\* a boot found only a deactivated administrator row and did not seed
C19_Witness ==
    /\ boot.booted
    /\ ~boot.seeded
    /\ AdminRows(api_keys) # {}
    /\ \A r \in AdminRows(api_keys) : r.is_active = 0

\* C20: in every state reachable after boot the administrator role holds the
\* universal-wildcard allow rule, so canAccess('admin', s, t) is true for every server
\* name s and tool name t.
C20_AdminHoldsWildcard ==
    boot.booted
    => /\ [role |-> "admin", resource |-> <<"*">>, action |-> "allow"] \in policies
       /\ \A s \in Names, t \in Names : canAccess("admin", s, t)

\* after boot an operator added a deny rule for the administrator role
C20_Witness ==
    /\ boot.booted
    /\ \E r \in policies : r.role = "admin" /\ r.action = "deny"


\* the backoff timer the gateway arms after failed attempt k of invocation c
BackoffOf(c, k) == [inv |-> c, attempt |-> k, kind |-> "backoff", delay |-> BACKOFF_UNIT_MS * k]

\* C22: after a failed attempt k in {1, 2} the gateway waits a backoff delay
\* proportional to k (k backoff units) before attempt k+1 starts: the call is in
\* backoff with that timer armed, and attempt k+1 starts only in the step in which
\* that timer fires.  After a failed attempt 3 there is no backoff: the failure is
\* propagated in the step in which the attempt fails.
C22_BackoffBetweenAttempts ==
    [][\A c \in Calls :
         /\ calls'[c].pc = "backoff"
              => /\ calls'[c].attempt \in 1..MAX_RETRIES
                 /\ BackoffOf(c, calls'[c].attempt) \in timers'
                 /\ Len(calls'[c].history) = calls'[c].attempt
                 /\ calls'[c].history[calls'[c].attempt] # "success"
         /\ (calls[c].attempt >= 1 /\ calls'[c].attempt # calls[c].attempt)
              => /\ calls'[c].attempt = calls[c].attempt + 1
                 /\ calls[c].pc = "backoff"
                 /\ BackoffOf(c, calls[c].attempt) \in timers
                 /\ BackoffOf(c, calls[c].attempt) \notin timers'
         /\ (Len(calls'[c].history) = MAX_RETRIES + 1 /\ Len(calls[c].history) = MAX_RETRIES
             /\ calls'[c].history[MAX_RETRIES + 1] # "success")
              => /\ calls'[c].pc = "done"
                 /\ calls'[c].status = "error"
                 /\ ~\E t \in timers' : t.inv = c /\ t.kind = "backoff"]_vars

\* a call failed three attempts and waited one and then two backoff units between
\* them, and a second call is waiting its first backoff
C22_Witness ==
    \E c, d \in Calls :
        /\ calls[c].pc = "done" /\ Len(calls[c].history) = MAX_RETRIES + 1
        /\ calls[c].status = "error"
        /\ calls[c].delays = <<BACKOFF_UNIT_MS, 2 * BACKOFF_UNIT_MS>>
        /\ calls[d].pc = "backoff" /\ calls[d].attempt = 1


\* the invocation was resolved to the server of the native kind and was not refused
NativeOwned(c) ==
    /\ calls[c].pc # "idle"
    /\ calls[c].resolved
    /\ calls[c].serverName = k_dexter_native
    /\ calls[c].error.kind # "AccessDenied"

\* one in-process invocation and nothing else: no connect, no request, no attempt, no
\* timer, no cached client, and an end that is the tool's own result or its own error
NativeOnce(c) ==
    /\ calls[c].nativeInvokes = 1
    /\ calls[c].connects = 0
    /\ calls[c].requests = 0
    /\ calls[c].attempt = 0
    /\ calls[c].history = <<>>
    /\ calls[c].delays = <<>>
    /\ {t \in timers : t.inv = c} = {}
    /\ {r \in inflight : r.inv = c} = {}
    /\ downstreamClients = <<>>
    /\ calls[c].pc \in {"native", "done"}
    /\ calls[c].pc = "done" =>
         \/ calls[c].status = "success" /\ calls[c].result = [from |-> "native", attempt |-> 0]
         \/ calls[c].status = "error" /\ calls[c].error.kind = "NativeError"

\* C21 as stated: a call whose owning server is of the native kind invokes the
\* in-process tool logic exactly once, without retry, timeout or client cache, and ends
\* with the tool's result or with the error the tool threw.
C21_NativeInvokedOnce == \A c \in Calls : NativeOwned(c) => NativeOnce(c)

\* C21 amended: that holds when the tool is in the in-process catalog; a tool owned by
\* a native server but absent from the catalog is never invoked, and the call fails
\* with the gateway's own error, again without connect, request, retry or cache.
C21_NativeInvokedOnceIfInCatalog ==
    \A c \in Calls :
        NativeOwned(c) =>
            IF calls[c].toolName \in Range(getToolRegistry)
            THEN NativeOnce(c)
            ELSE /\ calls[c].nativeInvokes = 0
                 /\ calls[c].connects = 0
                 /\ calls[c].requests = 0
                 /\ calls[c].attempt = 0
                 /\ {t \in timers : t.inv = c} = {}
                 /\ downstreamClients = <<>>
                 /\ calls[c].pc = "done"
                 /\ calls[c].status = "error"
                 /\ calls[c].error.kind = "NativeLogicNotFound"

C21_Witness ==
    \E c \in Calls :
        /\ NativeOwned(c)
        /\ calls[c].toolName \in Range(getToolRegistry)
        /\ calls[c].pc = "done"
        /\ calls[c].status = "error"
        /\ calls[c].error.kind = "NativeError"
        /\ calls[c].nativeInvokes = 1


\* the servers that hold a tool row of that name
Owners(name) ==
    {k \in DOMAIN mcp_servers :
        \E i \in DOMAIN mcp_tools : /\ mcp_tools[i].server_id = mcp_servers[k].id
                                    /\ mcp_tools[i].name = name}

\* the name is registered, every server that holds it is inactive or in error, and the
\* native catalog does not hold it
OnlyDownOwners(name) ==
    /\ Owners(name) # {}
    /\ \A k \in Owners(name) : mcp_servers[k].status # "active"
    /\ name \notin Range(getToolRegistry)

\* C25: getAllTools returns a registered tool if and only if its owning server has
\* status active (one entry per such tool row, none else); a tool whose only owners are
\* inactive or in error is in no role's listTools and a callTool of it fails as not
\* found, with no owner resolved, no connect and no invocation.
C25_OnlyActiveServersServe ==
    /\ \A k \in DOMAIN mcp_servers, i \in DOMAIN mcp_tools :
         mcp_tools[i].server_id = mcp_servers[k].id
         => ((\E j \in DOMAIN getAllTools :
                 getAllTools[j] = [tool_name |-> mcp_tools[i].name,
                                   server_name |-> mcp_servers[k].name,
                                   transport_type |-> mcp_servers[k].transport_type])
             <=> mcp_servers[k].status = "active")
    /\ Len(getAllTools)
       = Cardinality({i \in DOMAIN mcp_tools :
                        \E k \in DOMAIN mcp_servers : /\ mcp_servers[k].id = mcp_tools[i].server_id
                                                      /\ mcp_servers[k].status = "active"})
    /\ \A name \in ToolNames, role \in PolicyRoles :
         OnlyDownOwners(name)
         => \A j \in DOMAIN listTools(role) : listTools(role)[j].name # name
    /\ \A c \in Calls :
         calls[c].pc # "idle" /\ OnlyDownOwners(calls[c].toolName)
         => /\ calls[c].pc = "done"
            /\ calls[c].status = "error"
            /\ calls[c].error.kind = "ToolNotFound"
            /\ ~calls[c].resolved
            /\ calls[c].connects = 0
            /\ calls[c].nativeInvokes = 0

\* a call of a tool registered only under a server in error has failed as not found,
\* while another server is active and serves its tools
C25_Witness ==
    \E c \in Calls :
        /\ OnlyDownOwners(calls[c].toolName)
        /\ \E k \in Owners(calls[c].toolName) : mcp_servers[k].status = "error"
        /\ calls[c].pc = "done"
        /\ calls[c].error.kind = "ToolNotFound"
        /\ getAllTools # <<>>


\* the names listTools returns to that role
ListedNames(role) == {listTools(role)[j].name : j \in DOMAIN listTools(role)}

\* C27: discovery and dispatch agree: a call of a tool name that listTools returns to
\* the caller's role is never refused as forbidden, also when two servers (or a
\* registered server and the native catalog) hold a tool of that name.
C27_ListedToolsCallable ==
    \A c \in Calls :
        calls[c].pc # "idle" /\ calls[c].toolName \in ListedNames(calls[c].role)
        => calls[c].error.kind # "AccessDenied"


\* C28: every callTool invocation that has started eventually reaches a terminal
\* outcome (success or failure), also when the native tool, the downstream connect or
\* the downstream server never answers.
C28_CallTerminates == \A c \in Calls : (calls[c].pc # "idle") ~> (calls[c].pc = "done")


\* the requests of invocation c that the downstream has not answered
Outstanding(fl, c) == {q \in fl : q.inv = c}

\* C29: at most one downstream request of an invocation is outstanding at any time: a
\* request abandoned by its timeout is no longer in flight when the next attempt's
\* request is sent; and the late completion of an abandoned request changes neither
\* the call's result nor the log.
C29_OneRequestOutstanding ==
    [][\A c \in Calls :
          /\ Cardinality(Outstanding(inflight', c)) <= 1
          /\ (\E q \in Outstanding(inflight, c) :
                 /\ q \notin inflight'
                 /\ ~(calls[c].pc = "executing" /\ q = CurrentRequest(c)))
             => calls' = calls /\ call_logs' = call_logs]_vars


\* C30: registerServer of a name that is already stored changes only that row's
\* transport kind and config (and its update time): the row keeps its place, id, name
\* and status, the call returns that id, no row is added or removed, every other server
\* row and every tool row, the server's own included, is as it was.
C30_ReRegisterFrame ==
    [][(\E i \in DOMAIN mcp_servers : mcp_servers[i].name = regResult'.name)
       => /\ regResult'.op = "registerServer"
          /\ DOMAIN mcp_servers' = DOMAIN mcp_servers
          /\ \A i \in DOMAIN mcp_servers :
               IF mcp_servers[i].name = regResult'.name
               THEN /\ mcp_servers'[i] = [mcp_servers[i] EXCEPT
                                             !.transport_type = regResult'.transport_type,
                                             !.config = regResult'.config]
                    /\ regResult'.serverId = mcp_servers[i].id
               ELSE mcp_servers'[i] = mcp_servers[i]
          /\ mcp_tools' = mcp_tools]_vars

\* the first server, inactive and holding tools, was registered again with another
\* kind and config, next to a second server in error
C30_Witness ==
    /\ regResult.op = "registerServer"
    /\ regResult.name = research
    /\ Len(mcp_servers) = 2
    /\ mcp_servers[1] = [id |-> 1, name |-> research, transport_type |-> "sse",
                         config |-> "url", status |-> "inactive"]
    /\ mcp_servers[2].status = "error"
    /\ \E i \in DOMAIN mcp_tools : mcp_tools[i].server_id = 1


\* the step writes an error row for invocation c: the call has failed
FailsIn(c, before, after) == \E r \in after \ before : r.inv = c /\ r.status = "error"

\* C23: a tool call that fails, for whatever reason (tool not found, access denied,
\* connection failure, execution error, timeout), ends as a rejection that carries
\* the error, and the failing step leaves every session as it was: the active-session
\* table is unchanged, no session is closed, aborted or finished, and a message
\* POSTed to any session of the table is still looked up successfully.
C23_FailedCallKeepsSession ==
    [][\A c \in Calls :
          FailsIn(c, call_logs, call_logs')
          => /\ calls'[c].pc = "done"
             /\ calls'[c].status = "error"
             /\ calls'[c].error.kind \in {"ToolNotFound", "AccessDenied", "FailedToConnect",
                                          "ConnectError", "ServerConfigNotFound",
                                          "NativeError", "NativeLogicNotFound",
                                          "DownstreamError", "TimedOut"}
             /\ calls'[c].result = NoResult
             /\ activeSessions' = activeSessions
             /\ \A s \in Sids : /\ sess'[s].pc = sess[s].pc
                                /\ sess'[s].aborted = sess[s].aborted
                                /\ sess'[s].onclose = sess[s].onclose
                                /\ sess'[s].role = sess[s].role
             /\ \A s \in DOMAIN activeSessions : (PostLookup(s, "json") = 0)']_vars

\* the first call of a session failed by timeout after all its attempts, the session
\* is still in the table, and the second message POSTed to the same session was
\* accepted and its call has succeeded
C23_Witness ==
    /\ calls[1].pc = "done"
    /\ calls[1].status = "error"
    /\ calls[1].error.kind = "TimedOut"
    /\ posts[2].sessionId = posts[1].sessionId
    /\ posts[2].sessionId \in DOMAIN activeSessions
    /\ posts[2].status = 202
    /\ calls[2].pc = "done"
    /\ calls[2].status = "success"


\* C24: within one session the messages are handed to the session's handler in the
\* order their POSTs arrived (POSTs are numbered in arrival order); two tool calls of
\* one session that are in flight together run independently and end in either order.
C24_HandedInArrivalOrder ==
    \A s \in Sids :
        \A i, j \in DOMAIN sess[s].delivered :
            i < j => sess[s].delivered[i] < sess[s].delivered[j]


\* C26: a session's role is resolved once, when the session is opened, from the active
\* row of the API key presented; it never changes afterwards; a step that changes the
\* key table (a deactivation, a change of role) changes no session and closes none;
\* and every callTool and listTools of the session is evaluated with that role.
C26_RoleFixedAtOpen ==
    [][/\ \A s \in Sids :
            /\ (sess[s].pc = "none" /\ sess'[s].pc # "none")
               => \E r \in api_keys :
                     /\ r.key = httpResp'.apiKey
                     /\ r.is_active = 1
                     /\ sess'[s].apiKey = r.key
                     /\ sess'[s].role = r.role
                     /\ activeSessions'[s].role = r.role
            /\ sess[s].pc # "none"
               => /\ sess'[s].role = sess[s].role
                  /\ sess'[s].apiKey = sess[s].apiKey
       /\ api_keys' # api_keys => sess' = sess /\ activeSessions' = activeSessions
       /\ \A c \in Calls :
            (calls[c].pc = "idle" /\ calls'[c].pc # "idle")
            => /\ calls'[c].role = sess[posts[c].sessionId].role
               /\ calls'[c].sessionId = SessionUuid(posts[c].sessionId)
               /\ calls'[c].error.kind = "AccessDenied"
                  <=> /\ calls'[c].resolved
                      /\ ~canAccess(sess[posts[c].sessionId].role, calls'[c].serverName,
                                    calls'[c].toolName)
       /\ listed' # listed
          => \E n \in Posts :
                /\ posts[n].pc = "reading"
                /\ posts'[n].pc = "done"
                /\ listed' = [role |-> sess[posts[n].sessionId].role,
                              tools |-> listTools(sess[posts[n].sessionId].role)]]_vars

\* a session opened with the administrator's key is still open and in the table with
\* the role admin, that key is now inactive and has the role analyst, and a call of the
\* session, made as admin, has been let through to the native tool
C26_Witness ==
    \E s \in DOMAIN activeSessions :
        /\ sess[s].pc = "open"
        /\ sess[s].role = "admin"
        /\ [key |-> sess[s].apiKey, name |-> "Bootstrap Admin", role |-> "analyst",
            is_active |-> 0] \in api_keys
        /\ posts[1].sessionId = s
        /\ calls[1].role = "admin"
        /\ calls[1].pc = "native"

====
